---- MODULE Spec2Model ----
(***************************************************************************)
(* Model of shop_bot/modules/xui_api.py: the panel session adapter         *)
(* (login_to_host), the client upsert (update_or_create_client_on_panel),  *)
(* the per-host provisioning (create_or_update_key_on_host), the fan-out    *)
(* over all hosts (create_or_update_key_on_all_hosts), the retroactive     *)
(* sync (sync_keys_to_new_host), the link builders (get_subscription_link, *)
(* get_connection_string) and the subscription aggregator                  *)
(* (get_aggregated_connection_strings).                                    *)
(*                                                                         *)
(* Instants are integers: milliseconds before (negative) or after a model  *)
(* origin that is a whole second lying in 2004..2038, so that every POSIX  *)
(* second of the model is in [2^30, 2^31) and every millisecond count in   *)
(* [2^40, 2^41). The runs begin 16 days before the origin, which leaves    *)
(* room for an expiry 30 days later.                                       *)
(* The float arithmetic of the code (x / 1000, timestamp() * 1000, int())  *)
(* is modelled with the rounding an IEEE double performs in that range.    *)
(* The process's local time zone has a fixed UTC offset.                   *)
(*                                                                         *)
(* uuid4() and secrets.token_hex(12) are modelled as fresh values drawn    *)
(* from counters; panel clients are records; an e-mail is the sequence of  *)
(* its characters.                                                         *)
(***************************************************************************)
EXTENDS Integers, Sequences, FiniteSets, TLC

VARIABLES
  clock,     \* the wall clock, in ms after the origin
  clients,   \* clients[h]: the client list of host h's inbound, as the panel stores it
  hosts,     \* get_all_hosts(): the registered hosts, in registration order
  nextId,    \* source of uuid4() values
  nextTok,   \* source of secrets.token_hex(12) values
  last,      \* the most recent call of update_or_create_client_on_panel and its result
  lastLogin, \* the most recent login_to_host call: what the panel did, what was returned
  initial,   \* the client lists the run began with
  calls,     \* the number of direct calls made so far
  fan,       \* the running create_or_update_key_on_all_hosts call
  keys,      \* get_all_keys_with_subscription_token(): the local key records
  keyHosts,  \* the key_hosts table: the rows stored by add_key_host, oldest first
  sync,      \* the running sync_keys_to_new_host call
  agg,       \* the running get_aggregated_connection_strings call
  link,      \* a get_subscription_link call: its arguments, the storage it read, its result
  race,      \* two update_or_create_client_on_panel calls running in two threads
  del        \* the delete_client_on_host call

vars == <<clock, clients, hosts, nextId, nextTok, last, lastLogin, initial, calls, fan,
          keys, keyHosts, sync, agg, link, race, del>>

----------------------------------------------------------------------------
(* Bounds of the model *)

MaxCalls == 2

----------------------------------------------------------------------------
(* Values *)

None == -1
NoAttr == -2
Empty == 0
DefaultInbound == 443
DayMs == 24 * 3600 * 1000
UtcOffsetSec == 3 * 3600
T0 == (0 - 16) * DayMs

Aliases == <<"subId", "subscription", "sub_id">>

HostNames == {"h1", "h2", "h3"}

HostInbound(h) == IF h = "h2" THEN 8080 ELSE DefaultInbound

EmailA == <<"a", "@", "b">>
EmailC == <<"c", "@", "b">>
EmailBad == <<"a", "b">>

----------------------------------------------------------------------------
(* Float and datetime arithmetic *)

\* n / d rounded to the nearest integer, ties to even, added to base
RoundHalfEven(base, n, d) ==
  LET fl == n \div d
      r  == n % d
  IN  IF 2 * r > d THEN base + fl + 1
      ELSE IF 2 * r < d THEN base + fl
      ELSE IF (base + fl) % 2 = 0 THEN base + fl ELSE base + fl + 1

Carry(sec, n, lim) ==
  IF n >= lim THEN [sec |-> sec + 1, n |-> n - lim] ELSE [sec |-> sec, n |-> n]

\* expiry_time / 1000: the double nearest to the quotient; a double of this
\* range is a multiple of 2^-22 s, kept as [sec, q] for sec + q / 2^22
MsToFloatSec(ms) ==
  LET c == Carry(ms \div 1000, RoundHalfEven(0, (ms % 1000) * 2^19, 125), 2^22)
  IN  [sec |-> c.sec, q |-> c.n]

\* datetime.fromtimestamp(t): local naive datetime, microseconds rounded half even
FromTimestamp(t) ==
  LET us == RoundHalfEven((t.q \div 2^16) * 15625, (t.q % 2^16) * 15625, 2^16)
      c  == Carry(t.sec + UtcOffsetSec, us, 1000000)
  IN  [sec |-> c.sec, us |-> c.n]

\* datetime.now() read when the clock shows ms milliseconds and u microseconds more
DatetimeNow(ms, u) ==
  [sec |-> ms \div 1000 + UtcOffsetSec, us |-> (ms % 1000) * 1000 + u]

\* dt + timedelta(days = d)
AddDays(dt, d) == [dt EXCEPT !.sec = @ + d * 24 * 3600]

\* dt.timestamp() of a naive local datetime: seconds + microsecond / 1e6 as a double
Timestamp(dt) ==
  LET q == RoundHalfEven((dt.us \div 15625) * 2^16, (dt.us % 15625) * 2^16, 15625)
      c == Carry(dt.sec - UtcOffsetSec, q, 2^22)
  IN  [sec |-> c.sec, q |-> c.n]

\* int(t * 1000): the product rounded to a multiple of 2^-12 ms, then truncated
IntMs(t) == t.sec * 1000 + (RoundHalfEven(0, t.q * 125, 128) \div 2^12)

\* int(datetime.now().timestamp() * 1000)
NowMs(ms, u) == IntMs(Timestamp(DatetimeNow(ms, u)))

----------------------------------------------------------------------------
(* E-mail rewriting *)

RECURSIVE Split(_)
\* email.split('@')
Split(s) ==
  IF \A i \in 1..Len(s) : s[i] # "@" THEN <<s>>
  ELSE LET i == CHOOSE k \in 1..Len(s) : s[k] = "@" /\ \A j \in 1..(k - 1) : s[j] # "@"
       IN  <<SubSeq(s, 1, i - 1)>> \o Split(SubSeq(s, i + 1, Len(s)))

DigitChars == <<"0", "1", "2", "3", "4", "5", "6", "7", "8", "9">>

RECURSIVE Str(_)
\* the decimal digits of a non-negative integer, as an f-string formats it
Str(n) == IF n < 10 THEN <<DigitChars[n + 1]>> ELSE Str(n \div 10) \o <<DigitChars[(n % 10) + 1]>>

\* line 96 raises IndexError when the e-mail has no '@'
RewriteRaises(email, inbound_id) ==
  inbound_id # DefaultInbound /\ Len(Split(email)) < 2

\* mutant: the e-mail is used as given on every inbound
PanelEmailUnchanged(email, inbound_id) == email

\* the e-mail under which the client is looked up and created
PanelEmail(email, inbound_id) ==
  IF inbound_id # DefaultInbound
  THEN Split(email)[1] \o <<"_">> \o Str(inbound_id) \o <<"@">> \o Split(email)[2]
  ELSE email

----------------------------------------------------------------------------
(* update_or_create_client_on_panel *)

\* mutant: the scan starts at the second client
FindClientSkipsFirst(cl, email) ==
  IF \E i \in 2..Len(cl) : cl[i].email = email
  THEN CHOOSE i \in 2..Len(cl) : cl[i].email = email /\ \A j \in 2..(i - 1) : cl[j].email # email
  ELSE 0

\* the index of the first client with that e-mail, 0 for none (client_index = -1)
FindClient(cl, email) ==
  IF \E i \in 1..Len(cl) : cl[i].email = email
  THEN CHOOSE i \in 1..Len(cl) : cl[i].email = email /\ \A j \in 1..(i - 1) : cl[j].email # email
  ELSE 0

\* the mode check of lines 112-116: ValueError when neither is given
NoMode(days, target) == target = None /\ days = None

\* mutant: a disabled client is never extended
ExtendBaseEnabledOnly(cl, idx, now1) ==
  idx # 0 /\ cl[idx].enable /\ cl[idx].expiry_time > now1

\* mutant: an existing client is extended whatever its expiry
ExtendBaseAnyExisting(cl, idx, now1) ==
  idx # 0

\* the extend-or-restart branch of lines 117-125
ExtendBase(cl, idx, now1) ==
  idx # 0 /\ cl[idx].expiry_time > now1

\* mutant: days_to_add, when given, wins over target_expiry_ms
ResolveExpiryDaysFirst(cl, idx, days, target, now1, dtNow) ==
  IF days = None THEN target
  ELSE IF idx # 0 /\ cl[idx].expiry_time > now1
       THEN IntMs(Timestamp(AddDays(FromTimestamp(MsToFloatSec(cl[idx].expiry_time)), days)))
       ELSE IntMs(Timestamp(AddDays(dtNow, days)))

\* new_expiry_ms, lines 112-127; now1 is the reading of line 119, dtNow the
\* datetime.now() of lines 123/125
ResolveExpiry(cl, idx, days, target, now1, dtNow) ==
  IF target # None THEN target
  ELSE IF ExtendBase(cl, idx, now1)
       THEN IntMs(Timestamp(AddDays(FromTimestamp(MsToFloatSec(cl[idx].expiry_time)), days)))
       ELSE IntMs(Timestamp(AddDays(dtNow, days)))

\* mutant: only the alias sub_id is probed
ExistingTokenCanonicalOnly(c) ==
  IF c.tok["sub_id"] \notin {NoAttr, Empty} THEN c.tok["sub_id"] ELSE Empty

\* mutant: no alias is probed, a token is minted on every update
ExistingTokenIgnored(c) == Empty

\* the first alias that the client has and that holds a non-empty value, lines 143-149
ExistingToken(c) ==
  IF \E k \in 1..Len(Aliases) : c.tok[Aliases[k]] \notin {NoAttr, Empty}
  THEN LET k == CHOOSE k \in 1..Len(Aliases) :
                  /\ c.tok[Aliases[k]] \notin {NoAttr, Empty}
                  /\ \A j \in 1..(k - 1) : c.tok[Aliases[j]] \in {NoAttr, Empty}
       IN  c.tok[Aliases[k]]
  ELSE Empty

\* setattr(client, attr, token) under try/except: an attribute the client
\* object does not have is not created, the exception is swallowed
SetTokens(tok, token) ==
  [a \in DOMAIN tok |-> IF tok[a] = NoAttr THEN NoAttr ELSE token]

\* mutant: the update leaves reset as it was
UpdatedClientKeepsReset(c, newExpiry, freshTok) ==
  [c EXCEPT !.enable = TRUE,
            !.expiry_time = newExpiry,
            !.tok = IF \E a \in DOMAIN c.tok : c.tok[a] \notin {NoAttr, Empty}
                    THEN @ ELSE [a \in DOMAIN @ |-> IF @[a] = NoAttr THEN NoAttr ELSE freshTok]]

\* mutant: the update does not enable the client
UpdatedClientStaysDisabled(c, newExpiry, freshTok) ==
  [c EXCEPT !.reset = 0,
            !.expiry_time = newExpiry,
            !.tok = IF \E a \in DOMAIN c.tok : c.tok[a] \notin {NoAttr, Empty}
                    THEN @ ELSE [a \in DOMAIN @ |-> IF @[a] = NoAttr THEN NoAttr ELSE freshTok]]

\* lines 131-161: the existing client after the update
UpdatedClient(c, newExpiry, freshTok) ==
  [c EXCEPT !.reset = 0,
            !.enable = TRUE,
            !.expiry_time = newExpiry,
            !.tok = IF ExistingToken(c) # Empty THEN @ ELSE SetTokens(@, freshTok)]

\* lines 163-186: Client(id, email, enable, flow, expiry_time), reset and token set after
NewClient(id, email, newExpiry, freshTok) ==
  [id |-> id, email |-> email, enable |-> TRUE, expiry_time |-> newExpiry, reset |-> 0,
   tok |-> SetTokens([subId |-> NoAttr, subscription |-> NoAttr, sub_id |-> Empty], freshTok)]

\* mutant: every client of the list is enabled before the push
PushedClientsEnablesAll(cl, idx, email, newExpiry, freshId, freshTok) ==
  IF idx # 0
  THEN [n \in 1..Len(cl) |-> IF n = idx THEN UpdatedClient(cl[n], newExpiry, freshTok)
                             ELSE [cl[n] EXCEPT !.enable = TRUE]]
  ELSE [n \in 1..Len(cl) |-> [cl[n] EXCEPT !.enable = TRUE]]
         \o <<NewClient(freshId, email, newExpiry, freshTok)>>

\* the client list pushed by api.inbound.update, line 189
PushedClients(cl, idx, email, newExpiry, freshId, freshTok) ==
  IF idx # 0
  THEN [cl EXCEPT ![idx] = UpdatedClient(cl[idx], newExpiry, freshTok)]
  ELSE Append(cl, NewClient(freshId, email, newExpiry, freshTok))

\* the tuple returned at line 191
Returned(cl, idx, newExpiry, freshId, freshTok) ==
  IF idx # 0
  THEN <<cl[idx].id, newExpiry,
         IF ExistingToken(cl[idx]) # Empty THEN ExistingToken(cl[idx]) ELSE freshTok>>
  ELSE <<freshId, newExpiry, freshTok>>

Absent == <<None, None, None>>

PanelOutcomes == {"ok", "get_none", "get_error", "update_error"}

\* the whole call: what it returns, whether it raises, and the panel's list after;
\* env is what the panel does: "get_none" get_by_id finds nothing,
\* "get_error"/"update_error" the request raises
Upsert(cl, inbound_id, email, days, target, now1, dtNow, env, freshId, freshTok) ==
  IF RewriteRaises(email, inbound_id)
  THEN [raised |-> TRUE, ret |-> Absent, clients |-> cl]
  ELSE LET pe  == PanelEmail(email, inbound_id)
           idx == FindClient(cl, pe)
           new == ResolveExpiry(cl, idx, days, target, now1, dtNow)
       IN  IF env \in {"get_none", "get_error"} \/ NoMode(days, target) \/ env = "update_error"
           THEN [raised |-> FALSE, ret |-> Absent, clients |-> cl]
           ELSE [raised |-> FALSE,
                 ret |-> Returned(cl, idx, new, freshId, freshTok),
                 clients |-> PushedClients(cl, idx, pe, new, freshId, freshTok)]

----------------------------------------------------------------------------
(* login_to_host *)

LoginCauses == {"ok", "missing", "unreachable"}

NoSession == "None"

\* the (api, inbound) pair returned for host h: line 31 when the inbound is
\* found, line 30 when no inbound has the id, line 34 when login or listing raises
LoginReturn(h, cause) ==
  IF cause = "ok" THEN [api |-> h, inbound |-> h]
  ELSE IF cause = "missing" THEN [api |-> NoSession, inbound |-> NoSession]
  ELSE [api |-> NoSession, inbound |-> NoSession]

----------------------------------------------------------------------------
(* create_or_update_key_on_host *)

NoResult == [host_name |-> "None", client_uuid |-> None, email |-> <<>>, expiry_timestamp_ms |-> None]

\* mutant: the check of line 218 is missing
HostResultUnchecked(h, email, u) ==
  [host_name |-> h, client_uuid |-> u.ret[1], email |-> email,
   expiry_timestamp_ms |-> u.ret[2]]

\* lines 218-233: None when the upsert returned no client id, else the result dict
HostResult(h, email, u) ==
  IF u.ret[1] = None THEN NoResult
  ELSE [host_name |-> h, client_uuid |-> u.ret[1], email |-> email,
        expiry_timestamp_ms |-> u.ret[2]]

\* the call on a registered host (get_host finds it): [raised, result, clients,
\* called, upsert] where upsert is the update_or_create_client_on_panel call that
\* is made when the login succeeded (called); the result's connection_string
\* is left out
ProvisionHost(cl, h, email, days, target, now1, dtNow, cause, env, freshId, freshTok) ==
  LET s == LoginReturn(h, cause)
      u == Upsert(cl, HostInbound(h), email, days, target, now1, dtNow, env, freshId, freshTok)
  IN  IF s.api = NoSession \/ s.inbound = NoSession
      THEN [raised |-> FALSE, result |-> NoResult, clients |-> cl, called |-> FALSE, upsert |-> u]
      ELSE [raised |-> u.raised, result |-> IF u.raised THEN NoResult ELSE HostResult(h, email, u),
            clients |-> u.clients, called |-> TRUE, upsert |-> u]

----------------------------------------------------------------------------
(* Inputs *)

\* (days_to_add, target_expiry_ms) pairs: neither, days only, target only, both
ModesIn == {<<None, None>>, <<2, None>>, <<None, T0 - 5>>, <<1, T0 + DayMs + 3>>}
DriftIn == {0, 1}
MicrosIn == {0, 999}

InitialTok(a, b, c) == [subId |-> a, subscription |-> b, sub_id |-> c]

InitialClient(id, email, en, exp, rs, tok) ==
  [id |-> id, email |-> email, enable |-> en, expiry_time |-> exp, reset |-> rs, tok |-> tok]

\* client lists an inbound may hold before the first call; pa and pc are the
\* panel e-mails of EmailA and EmailC on that inbound
InitialLists(pa, pc) ==
  << <<>>,
     <<InitialClient(101, pa, FALSE, T0 + DayMs + 437, 30, InitialTok(NoAttr, NoAttr, 11))>>,
     <<InitialClient(102, pc, FALSE, T0, 0, InitialTok(NoAttr, NoAttr, Empty)),
       InitialClient(103, pa, TRUE, T0 - 1000, 7, InitialTok(12, Empty, Empty))>>,
     <<InitialClient(104, pa, FALSE, T0 + 1, 0, InitialTok(Empty, 13, 14))>>,
     <<InitialClient(105, pa, TRUE, T0, 30, InitialTok(NoAttr, NoAttr, Empty))>> >>

PanelWith(g, l) == [h \in HostNames |-> IF h = g THEN l ELSE <<>>]

InitialPanels ==
  { PanelWith("h1", InitialLists(EmailA, EmailC)[n]) : n \in 1..5 }
  \cup
  { PanelWith("h2", InitialLists(PanelEmail(EmailA, HostInbound("h2")),
                                PanelEmail(EmailC, HostInbound("h2")))[n]) : n \in 2..3 }

HostLists == { <<>>, <<"h1", "h2", "h3">>, <<"h2", "", "h1">> }


Idle == [pc |-> "idle", i |-> 0, email |-> <<>>, days |-> None, target |-> None,
         results |-> <<>>, tried |-> <<>>]

\* the record kept of a call: its arguments, the client list it found (pre), the
\* clock when it began (t0) and ended (t1), what the panel did, what it returned
NoCall == [host |-> "None", email |-> <<>>, days |-> None, target |-> None,
           pre |-> <<>>, t0 |-> 0, t1 |-> 0, raised |-> FALSE, ret |-> Absent,
           env |-> "none", freshId |-> 0, freshTok |-> 0]

CallRecord(h, email, days, target, env, pre, t0, t1, u, freshId, freshTok) ==
  [host |-> h, email |-> email, days |-> days, target |-> target,
   pre |-> pre, t0 |-> t0, t1 |-> t1, raised |-> u.raised, ret |-> u.ret,
   env |-> IF env = "ok" THEN "ok" ELSE "failed", freshId |-> freshId, freshTok |-> freshTok]

NoLogin == [cause |-> "none", host |-> "None", ret |-> [api |-> NoSession, inbound |-> NoSession]]

Succeeded(u) == ~u.raised /\ u.ret # Absent

----------------------------------------------------------------------------
(* State machine *)

\* the state before any call: no sync, aggregation, link or thread is running
\* and the local storage holds no key
Quiet ==
  /\ keys = <<>>
  /\ keyHosts = <<>>
  /\ sync = [pc |-> "idle"]
  /\ agg = [pc |-> "idle"]
  /\ link = [pc |-> "idle"]
  /\ race = [pc |-> "idle"]
  /\ del = [pc |-> "idle"]

InitWith(hl) ==
  /\ clock = T0
  /\ clients \in InitialPanels
  /\ initial = clients
  /\ hosts = hl
  /\ nextId = 1
  /\ nextTok = 1
  /\ calls = 0
  /\ last = NoCall
  /\ lastLogin = NoLogin
  /\ fan = Idle

Init == InitWith(<<"h1", "h2", "h3">>) /\ Quiet

\* the effect of one update_or_create_client_on_panel call on the state; drift
\* is the time that passes between the call's first and last clock reading
Apply(h, email, days, target, env, drift, u) ==
  /\ clock' = clock + drift
  /\ clients' = [clients EXCEPT ![h] = u.clients]
  /\ nextId' = IF Succeeded(u) /\ Len(u.clients) > Len(clients[h]) THEN nextId + 1 ELSE nextId
  /\ nextTok' = IF Succeeded(u) /\ u.ret[3] = nextTok THEN nextTok + 1 ELSE nextTok
  /\ last' = CallRecord(h, email, days, target, env, clients[h], clock, clock + drift,
                        u, nextId, nextTok)

\* a direct call of update_or_create_client_on_panel on an open session of host h
UpsertCall(h, email, days, target, env, drift, micros) ==
  /\ calls < MaxCalls
  /\ calls' = calls + 1
  /\ LET u == Upsert(clients[h], HostInbound(h), email, days, target, NowMs(clock, micros),
                     DatetimeNow(clock + drift, micros), env, nextId, nextTok)
     IN  Apply(h, email, days, target, env, drift, u)
  /\ UNCHANGED <<hosts, lastLogin, initial, fan, keys, keyHosts, sync, agg, link, race, del>>

----------------------------------------------------------------------------
(* create_or_update_key_on_all_hosts *)

\* lines 299-302: the call begins; with no host registered it returns [] at once
FanStart(email, days, target) ==
  /\ fan.pc = "idle"
  /\ fan' = [Idle EXCEPT !.pc = IF hosts = <<>> THEN "done" ELSE "loop", !.i = 1,
                         !.email = email, !.days = days, !.target = target]
  /\ UNCHANGED <<clock, clients, hosts, nextId, nextTok, last, lastLogin, initial, calls>>
  /\ UNCHANGED <<keys, keyHosts, sync, agg, link, race, del>>

\* the loop's next position: the return of line 315 follows the last host
FanAdvance(f) ==
  [f EXCEPT !.i = @ + 1, !.pc = IF f.i + 1 > Len(hosts) THEN "done" ELSE "loop"]

\* lines 304-306: an entry without host_name is skipped
FanSkip ==
  /\ fan.pc = "loop"
  /\ hosts[fan.i] = ""
  /\ fan' = FanAdvance(fan)
  /\ UNCHANGED <<clock, clients, hosts, nextId, nextTok, last, lastLogin, initial, calls>>
  /\ UNCHANGED <<keys, keyHosts, sync, agg, link, race, del>>

\* lines 307-314, the login fails: create_or_update_key_on_host returns None
FanStepNoSession(cause) ==
  /\ fan.pc = "loop"
  /\ hosts[fan.i] # ""
  /\ cause # "ok"
  /\ LET h == hosts[fan.i]
         p == ProvisionHost(clients[h], h, fan.email, fan.days, fan.target, 0,
                            DatetimeNow(0, 0), cause, "ok", nextId, nextTok)
     IN  /\ fan' = [FanAdvance(fan) EXCEPT
                      !.results = IF p.result # NoResult THEN Append(@, p.result) ELSE @,
                      !.tried = Append(@, <<h, FALSE>>)]
         /\ lastLogin' = [cause |-> cause, host |-> h, ret |-> LoginReturn(h, cause)]
  /\ UNCHANGED <<clock, clients, hosts, nextId, nextTok, last, initial, calls>>
  /\ UNCHANGED <<keys, keyHosts, sync, agg, link, race, del>>

\* lines 307-314, the login succeeds and the upsert is made; an exception of
\* create_or_update_key_on_host leaves the loop and the call
FanStepUpsert(env, drift, micros) ==
  /\ fan.pc = "loop"
  /\ hosts[fan.i] # ""
  /\ LET h == hosts[fan.i]
         p == ProvisionHost(clients[h], h, fan.email, fan.days, fan.target,
                            NowMs(clock, micros), DatetimeNow(clock + drift, micros),
                            "ok", env, nextId, nextTok)
     IN  /\ Apply(h, fan.email, fan.days, fan.target, env, drift, p.upsert)
         /\ fan' = IF p.raised
                   THEN [fan EXCEPT !.pc = "raised", !.tried = Append(@, <<h, FALSE>>)]
                   ELSE [FanAdvance(fan) EXCEPT
                           !.results = IF p.result # NoResult THEN Append(@, p.result) ELSE @,
                           !.tried = Append(@, <<h, Succeeded(p.upsert)>>)]
         /\ lastLogin' = [cause |-> "ok", host |-> h, ret |-> LoginReturn(h, "ok")]
  /\ UNCHANGED <<hosts, initial, calls, keys, keyHosts, sync, agg, link, race, del>>

\* the caller has taken the result (or the exception)
FanReturn ==
  /\ fan.pc \in {"done", "raised"}
  /\ fan' = [fan EXCEPT !.pc = "returned"]
  /\ UNCHANGED <<clock, clients, hosts, nextId, nextTok, last, lastLogin, initial, calls>>
  /\ UNCHANGED <<keys, keyHosts, sync, agg, link, race, del>>

----------------------------------------------------------------------------
(* sync_keys_to_new_host *)

Missing == -3

\* a key record of the local storage; key_id is Missing when the record has no
\* such field, expiry_date is a stored value of one of the ExpiryKinds
Key(id, email, expiry) == [key_id |-> id, key_email |-> email, expiry_date |-> expiry]

\* kinds of stored expiry: absent (None or ''), an ISO string, a datetime
\* object, a string that fromisoformat rejects
ExpiryKinds == {"none", "str", "datetime", "bad"}

NoExpiry == [kind |-> "none", sec |-> 0, us |-> 0]
BadExpiry == [kind |-> "bad", sec |-> 0, us |-> 0]

\* the stored naive local datetime that shows the instant ms (+ u microseconds)
StoredExpiry(kind, ms, u) ==
  [kind |-> kind, sec |-> ms \div 1000 + UtcOffsetSec, us |-> (ms % 1000) * 1000 + u]

\* lines 371-381: True when the key's turn ends in an exception before the
\* provisioning call: KeyError for key["key_id"], ValueError of fromisoformat
KeyRaises(key) ==
  \/ key.key_id = Missing
  \/ key.key_email # <<>> /\ key.expiry_date.kind = "bad"

\* lines 373-374: the key is passed over
KeySkipped(key) == key.key_id # Missing /\ key.key_email = <<>>

\* now + 30 * 24 * 3600 * 1000, added in two halves of 15 days
PlusThirtyDays(now) == (now + 15 * DayMs) + 15 * DayMs

\* mutant: the fallback of line 383 is used for every key
SyncExpiryAlwaysFallback(key, now) == PlusThirtyDays(now)

\* lines 375-383: expiry_ms, now being int(datetime.now().timestamp() * 1000)
SyncExpiry(key, now) ==
  IF key.expiry_date.kind # "none"
  THEN IntMs(Timestamp([sec |-> key.expiry_date.sec, us |-> key.expiry_date.us]))
  ELSE PlusThirtyDays(now)

\* the row written by add_key_host(key_id, new_host_name, r["client_uuid"], r["email"])
KeyHostRow(key, h, r) ==
  [key_id |-> key.key_id, host_name |-> h, xui_client_uuid |-> r.client_uuid,
   key_email |-> r.email]

\* get_host(name): the host record, None for a name that is not registered
HostKnown(h) == h \in HostNames

SyncIdle == [pc |-> "idle"]

\* what is kept of one key's turn: the key's position, whether the provisioning
\* call was made, whether the turn ended in an exception (caught at line 392),
\* whether its upsert succeeded, the client id it returned, the expiry passed
\* to it, what add_key_host did ("none" when not called), the clock before and after
SyncTurn(i, tried, raised, ok, id, expiry, store, t0, t1) ==
  [key |-> i, tried |-> tried, raised |-> raised, ok |-> ok, id |-> id, expiry |-> expiry,
   store |-> store, t0 |-> t0, t1 |-> t1]

\* lines 367-368
SyncStart(h) ==
  /\ sync.pc = "idle"
  /\ sync' = [pc |-> IF keys = <<>> THEN "done" ELSE "loop", host |-> h, i |-> 1,
              synced |-> 0, turns |-> <<>>, rows0 |-> Len(keyHosts),
              run |-> 1, prev |-> <<>>, panel |-> <<>>]
  /\ UNCHANGED <<clock, clients, hosts, nextId, nextTok, last, lastLogin, initial, calls, fan>>
  /\ UNCHANGED <<keys, keyHosts, agg, link, race, del>>

\* mutant: a turn that ends in an exception ends the loop
SyncAdvanceStopsOnError(f, turn) ==
  [f EXCEPT !.i = @ + 1, !.pc = IF f.i + 1 > Len(keys) \/ turn.raised THEN "done" ELSE "loop",
            !.turns = Append(@, turn)]

\* the loop's next position: the return of line 394 follows the last key
SyncAdvance(f, turn) ==
  [f EXCEPT !.i = @ + 1, !.pc = IF f.i + 1 > Len(keys) THEN "done" ELSE "loop",
            !.turns = Append(@, turn)]

\* lines 371-381 and 392-393: the key has no e-mail, or its turn raises before
\* the provisioning call and the exception is logged
SyncPassOver ==
  /\ sync.pc = "loop"
  /\ KeyRaises(keys[sync.i]) \/ KeySkipped(keys[sync.i])
  /\ sync' = SyncAdvance(sync, SyncTurn(sync.i, FALSE, KeyRaises(keys[sync.i]), FALSE, None, None,
                                        "none", clock, clock))
  /\ UNCHANGED <<clock, clients, hosts, nextId, nextTok, last, lastLogin, initial, calls, fan>>
  /\ UNCHANGED <<keys, keyHosts, agg, link, race, del>>

\* lines 384-389 with lines 198-211: the host is not registered or the login
\* fails, create_or_update_key_on_host returns None
SyncStepNoSession(cause, micros) ==
  /\ sync.pc = "loop"
  /\ ~KeyRaises(keys[sync.i]) /\ ~KeySkipped(keys[sync.i])
  /\ IF HostKnown(sync.host) THEN cause \in {"missing", "unreachable"} ELSE cause = "unknown"
  /\ sync' = SyncAdvance(sync, SyncTurn(sync.i, TRUE, FALSE, FALSE, None,
                                        SyncExpiry(keys[sync.i], NowMs(clock, micros)),
                                        "none", clock, clock))
  /\ lastLogin' = IF HostKnown(sync.host)
                  THEN [cause |-> cause, host |-> sync.host, ret |-> LoginReturn(sync.host, cause)]
                  ELSE lastLogin
  /\ UNCHANGED <<clock, clients, hosts, nextId, nextTok, last, initial, calls, fan>>
  /\ UNCHANGED <<keys, keyHosts, agg, link, race, del>>

\* lines 384-393, the login succeeds and the upsert is made with the key's
\* expiry as target; store says whether add_key_host returns or raises
SyncStepUpsert(env, store, drift, micros) ==
  /\ sync.pc = "loop"
  /\ ~KeyRaises(keys[sync.i]) /\ ~KeySkipped(keys[sync.i])
  /\ HostKnown(sync.host)
  /\ LET h   == sync.host
         key == keys[sync.i]
         exp == SyncExpiry(key, NowMs(clock, micros))
         p   == ProvisionHost(clients[h], h, key.key_email, None, exp,
                              NowMs(clock, micros), DatetimeNow(clock + drift, micros),
                              "ok", env, nextId, nextTok)
         got == ~p.raised /\ p.result # NoResult
         stored == got /\ store = "ok"
     IN  /\ Apply(h, key.key_email, None, exp, env, drift, p.upsert)
         /\ keyHosts' = IF stored THEN Append(keyHosts, KeyHostRow(key, h, p.result))
                        ELSE keyHosts
         /\ sync' = [SyncAdvance(sync, SyncTurn(sync.i, TRUE, p.raised \/ (got /\ store # "ok"),
                                                Succeeded(p.upsert), p.upsert.ret[1], exp,
                                                IF got THEN store ELSE "none",
                                                clock, clock + drift))
                       EXCEPT !.synced = IF stored THEN @ + 1 ELSE @]
         /\ lastLogin' = [cause |-> "ok", host |-> h, ret |-> LoginReturn(h, "ok")]
  /\ UNCHANGED <<hosts, initial, calls, fan, keys, agg, link, race, del>>

\* lines 367-368 once more: the sync is called again for the same host, right
\* after its first run; prev and panel keep the first run's turns and the
\* host's client list as the first run left it
SyncAgain ==
  /\ sync.pc = "returned"
  /\ sync.run = 1
  /\ sync' = [sync EXCEPT !.pc = IF keys = <<>> THEN "done" ELSE "loop", !.i = 1,
                          !.synced = 0, !.turns = <<>>, !.rows0 = Len(keyHosts),
                          !.run = 2, !.prev = sync.turns,
                          !.panel = IF HostKnown(sync.host) THEN clients[sync.host] ELSE <<>>]
  /\ UNCHANGED <<clock, clients, hosts, nextId, nextTok, last, lastLogin, initial, calls, fan>>
  /\ UNCHANGED <<keys, keyHosts, agg, link, race, del>>

\* line 394: the caller has taken the count
SyncReturn ==
  /\ sync.pc = "done"
  /\ sync' = [sync EXCEPT !.pc = "returned"]
  /\ UNCHANGED <<clock, clients, hosts, nextId, nextTok, last, lastLogin, initial, calls, fan>>
  /\ UNCHANGED <<keys, keyHosts, agg, link, race, del>>

----------------------------------------------------------------------------
(* get_connection_string, get_connection_string_for_client,
   get_aggregated_connection_strings *)

\* what an inbound's stream_settings.reality_settings holds: has_settings says
\* whether "settings" is there and not empty; "" and <<>> are an absent or
\* empty publicKey, serverNames, shortIds; fingerprint "None" is an absent one
Reality(has, pk, fp, sn, sid) ==
  [has_settings |-> has, publicKey |-> pk, fingerprint |-> fp, serverNames |-> sn,
   shortIds |-> sid]

NoLink == [uuid |-> None, hostname |-> "None", pbk |-> "", fp |-> "None", sni |-> "",
           sid |-> "", remark |-> "None"]

\* mutant: the short ids are not among the required parameters
ConnectionStringShortIdsOptional(reality, user_uuid, h, remark) ==
  IF ~reality.has_settings \/ reality.publicKey = "" \/ reality.serverNames = <<>>
  THEN NoLink
  ELSE [uuid |-> user_uuid, hostname |-> h, pbk |-> reality.publicKey,
        fp |-> reality.fingerprint, sni |-> reality.serverNames[1],
        sid |-> IF reality.shortIds = <<>> THEN "" ELSE reality.shortIds[1], remark |-> remark]

\* lines 36-57: the parts of the vless:// link, None when settings, public
\* key, server names or short ids are missing
ConnectionString(reality, user_uuid, h, remark) ==
  IF ~reality.has_settings THEN NoLink
  ELSE IF reality.publicKey = "" \/ reality.serverNames = <<>> \/ reality.shortIds = <<>>
       THEN NoLink
       ELSE [uuid |-> user_uuid, hostname |-> h, pbk |-> reality.publicKey,
             fp |-> reality.fingerprint, sni |-> reality.serverNames[1],
             sid |-> reality.shortIds[1], remark |-> remark]

\* lines 332-335: the index of the first client whose id is client_uuid or
\* whose e-mail is key_email, 0 for none
MatchClient(cl, client_uuid, key_email) ==
  IF \E i \in 1..Len(cl) : cl[i].id = client_uuid \/ cl[i].email = key_email
  THEN CHOOSE i \in 1..Len(cl) :
         /\ cl[i].id = client_uuid \/ cl[i].email = key_email
         /\ \A j \in 1..(i - 1) : ~(cl[j].id = client_uuid \/ cl[j].email = key_email)
  ELSE 0

\* lines 317-338 on a registered host: None without session, without clients
\* or without matching client, else the link of the first matching client
ClientLink(cl, h, client_uuid, key_email, remark, cause, reality) ==
  LET s == LoginReturn(h, cause)
      i == MatchClient(cl, client_uuid, key_email)
  IN  IF s.api = NoSession \/ s.inbound = NoSession \/ cl = <<>> THEN NoLink
      ELSE IF i = 0 THEN NoLink
      ELSE ConnectionString(reality, cl[i].id, h, remark)

\* line 355: the remark is the host name with '-' for every space
RECURSIVE Dashed(_)
Dashed(name) ==
  IF name = <<>> THEN <<>>
  ELSE <<IF Head(name) = " " THEN "-" ELSE Head(name)>> \o Dashed(Tail(name))

\* the characters of the host names; the name of h2 holds a space
HostChars(h) ==
  IF h = "h1" THEN <<"h", "1">>
  ELSE IF h = "h2" THEN <<"h", " ", "2">>
  ELSE IF h = "h3" THEN <<"h", "3">>
  ELSE <<"h", "9">>

\* get_key_hosts(key_id): the rows of the key, oldest first
KeyHostsOf(id) == SelectSeq(keyHosts, LAMBDA r : r.key_id = id)

AggIdle == [pc |-> "idle"]

\* what is kept of one row's turn: the row, what the login did, the reality
\* parameters the inbound showed, the link made (NoLink for none)
AggTurn(row, cause, reality, cs) == [row |-> row, cause |-> cause, reality |-> reality, cs |-> cs]

NoReality == Reality(FALSE, "", "None", <<>>, <<>>)

\* lines 345-348
AggStart(id) ==
  /\ agg.pc = "idle"
  /\ agg' = [pc |-> IF KeyHostsOf(id) = <<>> THEN "done" ELSE "loop", key |-> id,
             rows |-> KeyHostsOf(id), i |-> 1, out |-> <<>>, turns |-> <<>>]
  /\ UNCHANGED <<clock, clients, hosts, nextId, nextTok, last, lastLogin, initial, calls, fan>>
  /\ UNCHANGED <<keys, keyHosts, sync, link, race, del>>

\* the loop's next position after a row's turn; a link made is appended (lines 357-358)
AggAdvance(f, turn) ==
  [f EXCEPT !.i = @ + 1, !.pc = IF f.i + 1 > Len(f.rows) THEN "done" ELSE "loop",
            !.out = IF turn.cs # NoLink THEN Append(@, turn.cs) ELSE @,
            !.turns = Append(@, turn)]

\* lines 353-354: a row without host name or client id is passed over
AggPassOver ==
  /\ agg.pc = "loop"
  /\ agg.rows[agg.i].host_name = "" \/ agg.rows[agg.i].xui_client_uuid = Empty
  /\ agg' = AggAdvance(agg, AggTurn(agg.rows[agg.i], "none", NoReality, NoLink))
  /\ UNCHANGED <<clock, clients, hosts, nextId, nextTok, last, lastLogin, initial, calls, fan>>
  /\ UNCHANGED <<keys, keyHosts, sync, link, race, del>>

\* lines 355-358 with 321-331: the host is not registered, or the login fails
AggStepNoSession(cause) ==
  /\ agg.pc = "loop"
  /\ agg.rows[agg.i].host_name # "" /\ agg.rows[agg.i].xui_client_uuid # Empty
  /\ IF HostKnown(agg.rows[agg.i].host_name) THEN cause \in {"missing", "unreachable"}
     ELSE cause = "unknown"
  /\ agg' = AggAdvance(agg, AggTurn(agg.rows[agg.i], cause, NoReality, NoLink))
  /\ lastLogin' = IF HostKnown(agg.rows[agg.i].host_name)
                  THEN [cause |-> cause, host |-> agg.rows[agg.i].host_name,
                        ret |-> LoginReturn(agg.rows[agg.i].host_name, cause)]
                  ELSE lastLogin
  /\ UNCHANGED <<clock, clients, hosts, nextId, nextTok, last, initial, calls, fan>>
  /\ UNCHANGED <<keys, keyHosts, sync, link, race, del>>

\* lines 355-358 with 321-338: the login succeeds, the inbound shows the
\* reality parameters given, the client is searched and its link made
AggStepSearch(reality) ==
  /\ agg.pc = "loop"
  /\ agg.rows[agg.i].host_name # "" /\ agg.rows[agg.i].xui_client_uuid # Empty
  /\ HostKnown(agg.rows[agg.i].host_name)
  /\ LET row == agg.rows[agg.i]
         h   == row.host_name
         cs  == ClientLink(clients[h], h, row.xui_client_uuid, row.key_email,
                           Dashed(HostChars(h)), "ok", reality)
     IN  agg' = AggAdvance(agg, AggTurn(row, "ok", reality, cs))
  /\ lastLogin' = [cause |-> "ok", host |-> agg.rows[agg.i].host_name,
                   ret |-> LoginReturn(agg.rows[agg.i].host_name, "ok")]
  /\ UNCHANGED <<clock, clients, hosts, nextId, nextTok, last, initial, calls, fan>>
  /\ UNCHANGED <<keys, keyHosts, sync, link, race, del>>

\* line 359: the caller has taken the list
AggReturn ==
  /\ agg.pc = "done"
  /\ agg' = [agg EXCEPT !.pc = "returned"]
  /\ UNCHANGED <<clock, clients, hosts, nextId, nextTok, last, lastLogin, initial, calls, fan>>
  /\ UNCHANGED <<keys, keyHosts, sync, link, race, del>>

----------------------------------------------------------------------------
(* get_subscription_link; strings are sequences of characters *)

RECURSIVE LStrip(_, _)
\* s without its leading characters of the set chars
LStrip(s, chars) ==
  IF s # <<>> /\ Head(s) \in chars THEN LStrip(Tail(s), chars) ELSE s

RECURSIVE RStrip(_, _)
\* str.rstrip: s without its trailing characters of the set chars
RStrip(s, chars) ==
  IF s # <<>> /\ s[Len(s)] \in chars THEN RStrip(SubSeq(s, 1, Len(s) - 1), chars) ELSE s

Whitespace == {" ", "\t", "\n"}

\* str.strip()
Strip(s) == RStrip(LStrip(s, Whitespace), Whitespace)

IsPrefix(p, s) == Len(p) <= Len(s) /\ SubSeq(s, 1, Len(p)) = p

\* p in s
Contains(s, p) == \E i \in 0..(Len(s) - Len(p)) : SubSeq(s, i + 1, i + Len(p)) = p

RECURSIVE Replace(_, _, _)
\* str.replace(p, r) for a non-empty p: every occurrence, left to right
Replace(s, p, r) ==
  IF s = <<>> THEN <<>>
  ELSE IF IsPrefix(p, s) THEN r \o Replace(SubSeq(s, Len(p) + 1, Len(s)), p, r)
  ELSE <<Head(s)>> \o Replace(Tail(s), p, r)

Placeholder == <<"{", "t", "o", "k", "e", "n", "}">>

Http == <<"h", "t", "t", "p">>
Https == <<"h", "t", "t", "p", "s">>

\* lines 79-83 and 88-92: scheme://hostname/sub/ from the domain setting and
\* the parsed host_url
DefaultBase(domain, url) ==
  (IF url.scheme \in {Http, Https} THEN url.scheme ELSE Https)
    \o <<":", "/", "/">>
    \o (IF Strip(domain) # <<>> THEN Strip(domain) ELSE url.hostname)
    \o <<"/", "s", "u", "b", "/">>

\* lines 65-74: the host's subscription_url, stripped; "" when no host name is
\* given, the host is unknown, it has no override, or get_host raises
HostBase(lookup, override) ==
  IF lookup = "ok" THEN Strip(Strip(override)) ELSE <<>>

\* mutant: a configured domain wins over the host's override
SubscriptionLinkDomainFirst(user_uuid, url, lookup, override, sub_token, domain) ==
  IF sub_token # <<>> /\ Strip(domain) # <<>> THEN DefaultBase(domain, url) \o sub_token
  ELSE IF sub_token # <<>> /\ HostBase(lookup, override) # <<>>
  THEN IF Contains(HostBase(lookup, override), Placeholder)
       THEN Replace(HostBase(lookup, override), Placeholder, sub_token)
       ELSE RStrip(HostBase(lookup, override), {"/"}) \o <<"/">> \o sub_token
  ELSE IF sub_token # <<>> THEN DefaultBase(domain, url) \o sub_token
  ELSE IF HostBase(lookup, override) # <<>> THEN HostBase(lookup, override)
  ELSE DefaultBase(domain, url) \o user_uuid \o <<"?", "f", "o", "r", "m", "a", "t", "=", "v", "2", "r", "a", "y">>

\* lines 59-92; lookup is what reading the host's record gave, override its
\* subscription_url ("" for None), sub_token "" for None
SubscriptionLink(user_uuid, url, lookup, override, sub_token, domain) ==
  LET base == HostBase(lookup, override)
  IN  IF sub_token # <<>>
      THEN IF base # <<>>
           THEN IF Contains(base, Placeholder)
                THEN Replace(base, Placeholder, sub_token)
                ELSE RStrip(base, {"/"}) \o <<"/">> \o sub_token
           ELSE DefaultBase(domain, url) \o sub_token
      ELSE IF base # <<>> THEN base
      ELSE DefaultBase(domain, url) \o user_uuid
             \o <<"?", "f", "o", "r", "m", "a", "t", "=", "v", "2", "r", "a", "y">>

LinkIdle == [pc |-> "idle"]

\* the call with the arguments and storage contents drawn at the start
LinkCall ==
  /\ link.pc = "args"
  /\ link' = [link EXCEPT !.pc = "done",
                          !.result = SubscriptionLink(link.user_uuid, link.url, link.lookup,
                                                      link.override, link.sub_token, link.domain)]
  /\ UNCHANGED <<clock, clients, hosts, nextId, nextTok, last, lastLogin, initial, calls, fan>>
  /\ UNCHANGED <<keys, keyHosts, sync, agg, race, del>>

----------------------------------------------------------------------------
(* Two calls of update_or_create_client_on_panel on one inbound, in two
   threads: each reads the inbound (line 98) and later pushes it (line 189) *)

Threads == {1, 2}

RaceIdle == [pc |-> "idle"]

\* mutant: the panel adds the pushed clients to those it holds
PanelAfterPushMerging(current, u) ==
  IF Succeeded(u)
  THEN SelectSeq(current, LAMBDA c : \A n \in 1..Len(u.clients) : u.clients[n].email # c.email)
         \o u.clients
  ELSE current

\* the inbound's client list on the panel after line 189: the pushed list
\* replaces the panel's list; a call that fails before or in the push leaves it
PanelAfterPush(current, u) ==
  IF Succeeded(u) THEN u.clients ELSE current

\* the two calls begin with their arguments args[t] = <<email, days, target>>
RaceStart(h, a1, a2) ==
  /\ race.pc = "idle"
  /\ race' = [pc |-> "run", host |-> h, args |-> <<a1, a2>>, base |-> clients[h],
              at |-> <<"start", "start">>, snap |-> <<<<>>, <<>>>>,
              ret |-> <<Absent, Absent>>, log |-> <<>>]
  /\ UNCHANGED <<clock, clients, hosts, nextId, nextTok, last, lastLogin, initial, calls, fan>>
  /\ UNCHANGED <<keys, keyHosts, sync, agg, link, del>>

\* line 98: thread t gets the inbound with its client list
RaceRead(t) ==
  /\ race.pc = "run"
  /\ race.at[t] = "start"
  /\ race' = [race EXCEPT !.at[t] = "read", !.snap[t] = clients[race.host],
                          !.log = Append(@, <<"read", t>>)]
  /\ UNCHANGED <<clock, clients, hosts, nextId, nextTok, last, lastLogin, initial, calls, fan>>
  /\ UNCHANGED <<keys, keyHosts, sync, agg, link, del>>

\* lines 102-191: thread t changes the list it read, pushes it and returns
RacePush(t, env, micros) ==
  /\ race.pc = "run"
  /\ race.at[t] = "read"
  /\ LET h == race.host
         u == Upsert(race.snap[t], HostInbound(h), race.args[t][1], race.args[t][2],
                     race.args[t][3], NowMs(clock, micros), DatetimeNow(clock, micros),
                     env, nextId, nextTok)
     IN  /\ clients' = [clients EXCEPT ![h] = PanelAfterPush(clients[h], u)]
         /\ nextId' = IF Succeeded(u) /\ Len(u.clients) > Len(race.snap[t])
                      THEN nextId + 1 ELSE nextId
         /\ nextTok' = IF Succeeded(u) /\ u.ret[3] = nextTok THEN nextTok + 1 ELSE nextTok
         /\ race' = [race EXCEPT !.at[t] = "done", !.ret[t] = u.ret,
                                 !.log = Append(@, <<"push", t>>),
                                 !.pc = IF \A o \in Threads \ {t} : race.at[o] = "done"
                                        THEN "over" ELSE "run"]
  /\ UNCHANGED <<clock, hosts, last, lastLogin, initial, calls, fan>>
  /\ UNCHANGED <<keys, keyHosts, sync, agg, link, del>>

----------------------------------------------------------------------------
(* delete_client_on_host *)

\* what get_key_by_email gives: a record with its xui_client_uuid, no record, or
\* an exception of the storage
KeyLookups == {"found", "none", "error"}

\* the panel's client list after api.client.delete(inbound.id, uuid) returned:
\* the client with that id is gone, a list without it is left as it is
DeleteById(cl, uuid) == SelectSeq(cl, LAMBDA c : c.id # uuid)

\* lines 396-425: False when the host is unknown, the login fails or the try
\* block raises, True when the panel call returned and when no key record exists
DeleteReturn(h, cause, lookup, env) ==
  IF ~HostKnown(h) THEN FALSE
  ELSE IF cause # "ok" THEN FALSE
  ELSE IF lookup = "error" THEN FALSE
  ELSE IF lookup = "none" THEN TRUE
  ELSE env = "ok"

\* whether line 416 is reached and the panel carries the request out
DeleteApplied(h, cause, lookup, env) ==
  HostKnown(h) /\ cause = "ok" /\ lookup = "found" /\ env = "ok"

\* the whole call; uuid is the xui_client_uuid of the local key record, env is
\* what the panel does with the request ("error": it raises)
DeleteCall(h, email, cause, lookup, uuid, env) ==
  /\ del.pc = "idle"
  /\ fan.pc \in {"idle", "returned"}
  /\ del' = [pc |-> "done", host |-> h, email |-> email, lookup |-> lookup,
             uuid |-> IF lookup = "found" THEN uuid ELSE None,
             pre |-> IF HostKnown(h) THEN clients[h] ELSE <<>>,
             ret |-> DeleteReturn(h, cause, lookup, env)]
  /\ clients' = IF DeleteApplied(h, cause, lookup, env)
                THEN [clients EXCEPT ![h] = DeleteById(clients[h], uuid)]
                ELSE clients
  /\ lastLogin' = IF HostKnown(h)
                  THEN [cause |-> cause, host |-> h, ret |-> LoginReturn(h, cause)]
                  ELSE lastLogin
  /\ UNCHANGED <<clock, hosts, nextId, nextTok, last, initial, calls, fan>>
  /\ UNCHANGED <<keys, keyHosts, sync, agg, link, race>>

----------------------------------------------------------------------------
(* Specifications *)

DirectHosts == {"h1", "h2"}
DirectEmails == {EmailA, EmailBad}

\* the direct calls of update_or_create_client_on_panel
Next ==
  \/ \E h \in DirectHosts, email \in DirectEmails, m \in ModesIn,
        env \in PanelOutcomes, drift \in DriftIn, micros \in MicrosIn :
       UpsertCall(h, email, m[1], m[2], env, drift, micros)

Spec == Init /\ [][Next]_vars

\* one fan-out over the registered hosts
InitFan == (\E hl \in HostLists : InitWith(hl)) /\ Quiet

NextFan ==
  \/ \E email \in DirectEmails, m \in ModesIn : FanStart(email, m[1], m[2])
  \/ FanSkip
  \/ \E cause \in LoginCauses : FanStepNoSession(cause)
  \/ \E env \in PanelOutcomes, drift \in DriftIn, micros \in MicrosIn :
       FanStepUpsert(env, drift, micros)
  \/ FanReturn

SpecFan == InitFan /\ [][NextFan]_vars

\* keys the storage may hold when a host is added
KeyLists ==
  { <<Key(1, EmailA, StoredExpiry("str", T0 + 437, 5)), Key(2, EmailC, NoExpiry)>>,
    <<Key(Missing, EmailA, NoExpiry), Key(5, <<>>, NoExpiry), Key(6, EmailC, BadExpiry),
      Key(7, EmailA, StoredExpiry("datetime", T0 - 3, 999))>>,
    <<Key(3, EmailBad, StoredExpiry("str", T0 + 2 * DayMs, 0)),
      Key(4, EmailA, StoredExpiry("str", T0 + 5, 1))>> }

SyncHosts == {"h1", "h2", "h9"}
StoreOutcomes == {"ok", "error"}

\* one retroactive sync
InitSync ==
  /\ InitWith(<<"h1", "h2", "h3">>)
  /\ keys \in KeyLists
  /\ keyHosts = <<>>
  /\ sync = SyncIdle
  /\ agg = [pc |-> "idle"]
  /\ link = LinkIdle
  /\ race = [pc |-> "idle"]
  /\ del = [pc |-> "idle"]

NextSync ==
  \/ \E h \in SyncHosts : SyncStart(h)
  \/ SyncPassOver
  \/ \E cause \in {"missing", "unreachable", "unknown"}, micros \in MicrosIn :
       SyncStepNoSession(cause, micros)
  \/ \E env \in PanelOutcomes, store \in StoreOutcomes, drift \in DriftIn, micros \in MicrosIn :
       SyncStepUpsert(env, store, drift, micros)
  \/ SyncReturn

SpecSync == InitSync /\ [][NextSync]_vars

\* the retroactive sync run twice in a row for one host
ResyncHosts == {"h1", "h2"}
ResyncOutcomes == {"ok", "update_error"}

NextResync ==
  \/ \E h \in ResyncHosts : SyncStart(h)
  \/ SyncPassOver
  \/ SyncStepNoSession("unreachable", 0)
  \/ \E env \in ResyncOutcomes, store \in StoreOutcomes :
       SyncStepUpsert(env, store, 1, 999)
  \/ SyncAgain
  \/ SyncReturn

SpecResync == InitSync /\ [][NextResync]_vars

\* key_hosts tables the aggregator may find
Row(id, h, uuid, email) == [key_id |-> id, host_name |-> h, xui_client_uuid |-> uuid, key_email |-> email]

RowLists ==
  { <<Row(1, "h1", 103, EmailA), Row(1, "h2", 103, EmailA), Row(2, "h1", 101, EmailC)>>,
    <<Row(1, "h1", 103, EmailC), Row(1, "h9", 7, EmailA), Row(2, "h2", 101, EmailA)>>,
    <<Row(1, "", 101, EmailA), Row(1, "h1", 999, EmailA), Row(1, "h1", 998, EmailBad)>> }

RealityIn ==
  { Reality(TRUE, "pk", "chrome", <<"s1", "s2">>, <<"aa", "bb">>),
    Reality(TRUE, "pk", "None", <<"s1">>, <<"aa">>),
    Reality(FALSE, "", "None", <<"s1">>, <<"aa">>),
    Reality(TRUE, "", "chrome", <<"s1">>, <<"aa">>),
    Reality(TRUE, "pk", "chrome", <<>>, <<"aa">>),
    Reality(TRUE, "pk", "chrome", <<"s1">>, <<>>) }

AggKeys == {1, 2, 3}

\* one aggregation
InitAgg ==
  /\ InitWith(<<"h1", "h2", "h3">>)
  /\ keys = <<>>
  /\ keyHosts \in RowLists
  /\ sync = SyncIdle
  /\ agg = AggIdle
  /\ link = LinkIdle
  /\ race = [pc |-> "idle"]
  /\ del = [pc |-> "idle"]

NextAgg ==
  \/ \E id \in AggKeys : AggStart(id)
  \/ AggPassOver
  \/ \E cause \in {"missing", "unreachable", "unknown"} : AggStepNoSession(cause)
  \/ \E reality \in RealityIn : AggStepSearch(reality)
  \/ AggReturn

SpecAgg == InitAgg /\ [][NextAgg]_vars

\* subscription_url values of a host record
OverridesIn ==
  { <<>>, <<" ", " ">>,
    <<"c", "/">> \o Placeholder,
    <<"c">>, <<"c", "/">>, <<"c", "/", "/">>,
    <<" ", "c", "/">> \o Placeholder \o <<" ">>,
    Placeholder \o <<"/">> \o Placeholder,
    <<"c", " ", "/", "\n">> }

TokensIn == { <<>>, <<"a", "b", "c", "1", "2", "3">> }
DomainsIn == { <<>>, <<" ", "d", " ">> }
UrlsIn == { [scheme |-> Http, hostname |-> <<"p">>], [scheme |-> <<"f", "t", "p">>, hostname |-> <<>>] }
LookupsIn == {"ok", "no_name", "unknown", "error"}

\* get_subscription_link on every combination of the inputs
InitLink ==
  /\ InitWith(<<"h1", "h2", "h3">>)
  /\ clients = PanelWith("h1", <<>>)
  /\ keys = <<>>
  /\ keyHosts = <<>>
  /\ sync = SyncIdle
  /\ agg = AggIdle
  /\ race = [pc |-> "idle"]
  /\ del = [pc |-> "idle"]
  /\ link \in [pc : {"args"}, user_uuid : {<<"u", "1">>}, url : UrlsIn, lookup : LookupsIn,
               override : OverridesIn, sub_token : TokensIn, domain : DomainsIn,
               result : {<<>>}]

NextLink == LinkCall

SpecLink == InitLink /\ [][NextLink]_vars

RaceEmails == {EmailA, EmailC}
RaceModes == {<<2, None>>, <<1, None>>, <<None, T0 + DayMs + 3>>}
RaceOutcomes == {"ok", "update_error"}

\* two calls on one inbound
InitRace ==
  /\ InitWith(<<"h1", "h2", "h3">>)
  /\ keys = <<>>
  /\ keyHosts = <<>>
  /\ sync = SyncIdle
  /\ agg = AggIdle
  /\ link = LinkIdle
  /\ race = RaceIdle
  /\ del = [pc |-> "idle"]

NextRace ==
  \/ \E h \in DirectHosts, e1, e2 \in RaceEmails, m1, m2 \in RaceModes :
       RaceStart(h, <<e1, m1[1], m1[2]>>, <<e2, m2[1], m2[2]>>)
  \/ \E t \in Threads : RaceRead(t)
  \/ \E t \in Threads, env \in RaceOutcomes, micros \in MicrosIn : RacePush(t, env, micros)

SpecRace == InitRace /\ [][NextRace]_vars

DeleteHosts == {"h1", "h2", "h9"}
DeleteModes == {<<2, None>>, <<None, T0 + DayMs + 3>>}
DeleteLogins == {"ok", "unreachable"}
ProvisionOutcomes == {"ok", "update_error"}

\* the ids under which the clients of an e-mail are known on the hosts: the
\* xui_client_uuid of the local key record is one of them
MintedFor(email) ==
  UNION { {clients[h][n].id : n \in {k \in 1..Len(clients[h]) :
                                        clients[h][k].email = PanelEmail(email, HostInbound(h))}} :
          h \in HostNames }

\* a subscription is provisioned on every host, or not at all, and then one
\* client is deleted on one host
InitDelete == InitWith(<<"h1", "h2", "h3">>) /\ Quiet

NextDelete ==
  \/ \E m \in DeleteModes : del.pc = "idle" /\ FanStart(EmailA, m[1], m[2])
  \/ \E cause \in DeleteLogins : FanStepNoSession(cause)
  \/ \E env \in ProvisionOutcomes : FanStepUpsert(env, 0, 0)
  \/ FanReturn
  \/ \E h \in DeleteHosts, email \in {EmailA, EmailC}, cause \in DeleteLogins,
        lookup \in KeyLookups, env \in StoreOutcomes :
       \E uuid \in (IF lookup = "found" THEN MintedFor(email) ELSE {None}) :
         DeleteCall(h, email, cause, lookup, uuid, env)

SpecDelete == InitDelete /\ [][NextDelete]_vars

----------------------------------------------------------------------------
(* What the claims speak of *)

\* a call of update_or_create_client_on_panel has been made
Called == last.host # "None"

\* the most recent call returned a client id, an expiry and a token
LastOk == Called /\ ~last.raised /\ last.ret # Absent

\* the e-mail label of the most recent call's client on its inbound
LastLabel == PanelEmail(last.email, HostInbound(last.host))

Holders(cl, label) == {i \in 1..Len(cl) : cl[i].email = label}

EmailsOf(cl) == {cl[i].email : i \in 1..Len(cl)}

\* the call found a client with its label
HasOld == Holders(last.pre, LastLabel) # {}

\* that client as the call found it, and the call's client as the panel holds it now
Old == last.pre[CHOOSE i \in Holders(last.pre, LastLabel) : \A j \in Holders(last.pre, LastLabel) : i <= j]
Now == clients[last.host][CHOOSE i \in Holders(clients[last.host], LastLabel) :
                            \A j \in Holders(clients[last.host], LastLabel) : i <= j]

\* extend-by-days mode
DaysMode == last.target = None /\ last.days # None /\ last.days > 0

TokensOf(c) == {c.tok[a] : a \in DOMAIN c.tok} \ {NoAttr, Empty}

----------------------------------------------------------------------------
(* C1: in extend-by-days mode, when the inbound holds a client with the upserted
   e-mail whose expiry is strictly later than now, the upsert stores and returns
   the existing expiry plus daysToAdd days, to the millisecond, whatever the
   client's enabled flag was. *)
C1_ExtendLive ==
  (LastOk /\ DaysMode /\ HasOld /\ Old.expiry_time > last.t0)
    => /\ last.ret[2] = Old.expiry_time + last.days * DayMs
       /\ Now.expiry_time = Old.expiry_time + last.days * DayMs

C1_Witness ==
  /\ LastOk /\ DaysMode /\ HasOld
  /\ Old.expiry_time > last.t0
  /\ ~Old.enable
  /\ Old.expiry_time % 1000 # 0
  /\ Now.expiry_time = Old.expiry_time + last.days * DayMs

(* C2: in extend-by-days mode, when no client has the upserted e-mail or the
   existing client's expiry is not after now, the new expiry is daysToAdd days
   after an instant the clock showed during the call: the old expiry is not the base. *)
C2_RestartFromNow ==
  (LastOk /\ DaysMode /\ (~HasOld \/ Old.expiry_time <= last.t0))
    => /\ last.ret[2] - last.days * DayMs \in last.t0..last.t1
       /\ Now.expiry_time = last.ret[2]

C2_Witness ==
  /\ LastOk /\ DaysMode /\ HasOld
  /\ Old.expiry_time = last.t0
  /\ last.ret[2] = last.t1 + last.days * DayMs
  /\ last.t1 > last.t0

(* C3: a target expiry given to the upsert is the expiry stored and returned,
   whether or not a client existed, whatever its expiry, whatever daysToAdd
   comes with it. *)
C3_TargetVerbatim ==
  (LastOk /\ last.target # None)
    => /\ last.ret[2] = last.target
       /\ Now.expiry_time = last.target

C3_Witness ==
  /\ LastOk /\ last.target # None /\ last.days # None
  /\ HasOld /\ Old.expiry_time > last.t0 /\ Old.expiry_time # last.target
  /\ Now.expiry_time = last.target

(* C4: an upsert called with neither daysToAdd nor a target expiry raises to
   its caller, and leaves the panel's client list as it was. *)
C4_FailsLoudly ==
  (Called /\ last.days = None /\ last.target = None)
    => /\ last.raised
       /\ clients[last.host] = last.pre

(* C5: an e-mail label that the inbound did not hold at the start is held by at
   most one client, and by exactly one after every successful upsert of it. *)
C5_OneClientPerLabel ==
  /\ \A h \in HostNames : \A e \in EmailsOf(clients[h]) \ EmailsOf(initial[h]) :
       Cardinality(Holders(clients[h], e)) = 1
  /\ LastOk => Cardinality(Holders(clients[last.host], LastLabel)) >= 1

C5_Witness ==
  /\ LastOk /\ HasOld
  /\ LastLabel \notin EmailsOf(initial[last.host])
  /\ Cardinality(Holders(clients[last.host], LastLabel)) = 1
  /\ Old.id = Now.id

(* C6: a successful upsert of a client that has a non-empty token under some
   alias leaves every alias as it was and returns one of those tokens; a fresh
   token is returned only for a new client or a client with no token. *)
C6_TokenStable ==
  LastOk =>
    /\ (HasOld /\ TokensOf(Old) # {}) => (Now.tok = Old.tok /\ last.ret[3] \in TokensOf(Old))
    /\ last.ret[3] = last.freshTok => (~HasOld \/ TokensOf(Old) = {})

C6_Witness ==
  /\ LastOk /\ HasOld
  /\ Old.tok["subId"] \notin {NoAttr, Empty}
  /\ Old.tok["sub_id"] = Empty
  /\ last.ret[3] = Old.tok["subId"]

(* C7: after a successful upsert, on the create and on the update path, the
   upserted client's reset (auto-renew) value is 0. *)
C7_ResetOff ==
  LastOk => Now.reset = 0

C7_Witness ==
  /\ LastOk /\ HasOld
  /\ Old.reset # 0
  /\ Now.reset = 0

(* C8: the fan-out does not raise, attempts every named host, also those after
   a failed one, and returns one result for each host that succeeded, in order. *)
C8_FanOutPartialFailure ==
  fan.pc \in {"done", "raised"} =>
    /\ fan.pc = "done"
    /\ [i \in 1..Len(fan.tried) |-> fan.tried[i][1]] = SelectSeq(hosts, LAMBDA h : h # "")
    /\ [i \in 1..Len(fan.results) |-> fan.results[i].host_name]
         = [i \in 1..Len(SelectSeq(fan.tried, LAMBDA t : t[2])) |->
              SelectSeq(fan.tried, LAMBDA t : t[2])[i][1]]

(* C9: a call of the upsert never raises; when it fails it returns no client
   id, no expiry and no token. *)
C9_NeverRaises ==
  Called =>
    /\ ~last.raised
    /\ \/ last.ret = Absent
       \/ \A k \in 1..3 : last.ret[k] # None

(* C10: what login_to_host returns when the panel has no inbound of the
   requested id differs from what it returns when the panel is unreachable. *)
C10_NotFoundDistinct ==
  lastLogin.cause = "missing" => lastLogin.ret # LoginReturn(lastLogin.host, "unreachable")

----------------------------------------------------------------------------
(* The retroactive sync *)

SyncOver == sync.pc \in {"done", "returned"}

\* the rows the running sync has stored, and those of them of the key at position i
NewRows == {n \in 1..Len(keyHosts) : n > sync.rows0}
RowsOf(i) == {n \in NewRows : keyHosts[n].key_id = keys[i].key_id
                              /\ keyHosts[n].host_name = sync.host}

Turns == {sync.turns[n] : n \in 1..Len(sync.turns)}

\* the stored expiry of a key in milliseconds, computed in integers
StoredMs(key) == (key.expiry_date.sec - UtcOffsetSec) * 1000 + key.expiry_date.us \div 1000

\* the client of the sync's host that has the id the turn's upsert returned
SyncedClient(t) ==
  clients[sync.host][CHOOSE n \in 1..Len(clients[sync.host]) : clients[sync.host][n].id = t.id]

(* C11: when a retroactive sync is over, a KeyHost row was stored for a key if
   and only if the upsert for that key on the new host succeeded, and the
   returned count is the number of rows the call stored. *)
C11_RowIffUpserted ==
  SyncOver =>
    /\ \A t \in Turns : (RowsOf(t.key) # {}) <=> t.ok
    /\ sync.synced = Cardinality(NewRows)

(* C11 as amended: a KeyHost row is stored for a key if and only if the
   provisioning call for that key returned a result (its upsert succeeded) and
   add_key_host did not raise; no key gets two rows; the returned count is the
   number of rows the call stored. *)
C11_RowIffUpsertedAndStored ==
  SyncOver =>
    /\ \A t \in Turns : (RowsOf(t.key) # {}) <=> (t.ok /\ t.store = "ok")
    /\ \A t \in Turns : Cardinality(RowsOf(t.key)) <= 1
    /\ sync.synced = Cardinality(NewRows)

C11_Witness ==
  /\ SyncOver
  /\ \E t \in Turns : t.ok /\ t.store = "ok" /\ Cardinality(RowsOf(t.key)) = 1
  /\ \E t \in Turns : t.tried /\ ~t.ok /\ RowsOf(t.key) = {}
  /\ sync.synced = 1

(* C12: when a retroactive sync is over, the client of every key whose upsert
   succeeded has on the new host the key's stored expiry in milliseconds, or,
   for a key without stored expiry, an instant 30 days after a clock reading of
   the key's turn, whatever client the host held before. *)
C12_SyncedExpiry ==
  SyncOver =>
    \A t \in Turns : t.ok =>
      IF keys[t.key].expiry_date.kind # "none"
      THEN SyncedClient(t).expiry_time = StoredMs(keys[t.key])
      ELSE (SyncedClient(t).expiry_time - 15 * DayMs) - 15 * DayMs \in t.t0..t.t1

C12_Witness ==
  /\ SyncOver
  /\ \E t \in Turns :
       /\ t.ok
       /\ keys[t.key].expiry_date.kind # "none"
       /\ keys[t.key].expiry_date.us % 1000 # 0
       /\ \E n \in 1..Len(initial[sync.host]) :
            /\ initial[sync.host][n].id = t.id
            /\ initial[sync.host][n].expiry_time > StoredMs(keys[t.key])
       /\ SyncedClient(t).expiry_time = StoredMs(keys[t.key])
  /\ \E t \in Turns : t.ok /\ keys[t.key].expiry_date.kind = "none"

(* C13: a turn of the sync loop that fails (failed upsert, unparsable expiry,
   missing field, error of add_key_host) does not end the loop: while the loop
   runs the turns taken are those of the keys before the current one, and when
   the call is over every key has had its turn, in order. *)
C13_LoopNeverAborts ==
  /\ sync.pc = "loop" => sync.i <= Len(keys) /\ Len(sync.turns) = sync.i - 1
  /\ SyncOver => [n \in 1..Len(sync.turns) |-> sync.turns[n].key] = [n \in 1..Len(keys) |-> n]

C13_Witness ==
  /\ SyncOver
  /\ Len(sync.turns) = Len(keys)
  /\ \E m, n \in 1..Len(sync.turns) :
       /\ m < n
       /\ sync.turns[m].raised
       /\ sync.turns[n].ok /\ sync.turns[n].store = "ok"
  /\ \E n \in 1..Len(sync.turns) : sync.turns[n].tried /\ ~sync.turns[n].ok /\ n < Len(sync.turns)

----------------------------------------------------------------------------
(* The aggregator *)

AggOver == agg.pc \in {"done", "returned"}

\* the inbound of the row's host holds a client with the row's id or e-mail
Located(row) ==
  \E n \in 1..Len(clients[row.host_name]) :
    \/ clients[row.host_name][n].id = row.xui_client_uuid
    \/ clients[row.host_name][n].email = row.key_email

\* public key, server names and short ids are all there
Complete(reality) ==
  reality.publicKey # "" /\ reality.serverNames # <<>> /\ reality.shortIds # <<>>

\* the row's host is registered and reachable, its client is located, its
\* inbound has the required parameters
Qualifies(t) ==
  /\ HostKnown(t.row.host_name)
  /\ t.cause = "ok"
  /\ Located(t.row)
  /\ Complete(t.reality)

(* C14: an aggregation takes every KeyHost row of the key in turn and returns
   exactly one descriptor, in row order, for each row whose host is registered
   and reachable, whose client is located and whose inbound has public key,
   server names and short ids; the other rows contribute nothing. *)
C14_OnePerUsableRow ==
  /\ agg.pc = "loop" => agg.i <= Len(agg.rows) /\ Len(agg.turns) = agg.i - 1
  /\ AggOver =>
       /\ [n \in 1..Len(agg.turns) |-> agg.turns[n].row] = agg.rows
       /\ agg.rows = KeyHostsOf(agg.key)
       /\ [n \in 1..Len(agg.out) |-> agg.out[n].hostname]
            = [n \in 1..Len(SelectSeq(agg.turns, Qualifies)) |->
                 SelectSeq(agg.turns, Qualifies)[n].row.host_name]
       /\ \A n \in 1..Len(agg.out) :
            \E m \in 1..Len(clients[agg.out[n].hostname]) :
              clients[agg.out[n].hostname][m].id = agg.out[n].uuid

C14_Witness ==
  /\ AggOver
  /\ Len(agg.rows) >= 2
  /\ Len(agg.out) = 1
  /\ agg.turns[1].cause = "unreachable"
  /\ Qualifies(agg.turns[2])
  /\ agg.out[1].hostname = agg.turns[2].row.host_name

(* C15: when the inbound holds a client with the row's stored client id, the
   descriptor made for the row is that client's, also when another client with
   the row's stored e-mail stands before it in the list. *)
C15_IdMatchPreferred ==
  agg.pc # "idle" => \A n \in 1..Len(agg.turns) :
    (agg.turns[n].cs # NoLink
       /\ \E m \in 1..Len(clients[agg.turns[n].row.host_name]) :
            clients[agg.turns[n].row.host_name][m].id = agg.turns[n].row.xui_client_uuid)
    => agg.turns[n].cs.uuid = agg.turns[n].row.xui_client_uuid

----------------------------------------------------------------------------
(* The e-mail label *)

\* the client of the most recent call's host that has the id the call returned
Upserted ==
  clients[last.host][CHOOSE n \in 1..Len(clients[last.host]) :
                       clients[last.host][n].id = last.ret[1]]

\* the parts of an e-mail with one '@'
At(e) == CHOOSE i \in 1..Len(e) : e[i] = "@"
LocalPart(e) == SubSeq(e, 1, At(e) - 1)
DomainPart(e) == SubSeq(e, At(e) + 1, Len(e))

\* localpart_8080@domain
Label8080(e) == LocalPart(e) \o <<"_", "8", "0", "8", "0", "@">> \o DomainPart(e)

(* C16: a successful upsert on the inbound 8080 stores its client under
   localpart_8080@domain, and it updates the client that already has this label
   instead of creating one; on the inbound 443 the e-mail is the label as given. *)
C16_EmailRewrite ==
  LastOk =>
    LET label == IF HostInbound(last.host) = 443 THEN last.email ELSE Label8080(last.email)
    IN  /\ Upserted.email = label
        /\ Holders(last.pre, label) # {} =>
             /\ Len(clients[last.host]) = Len(last.pre)
             /\ \E n \in Holders(last.pre, label) : last.pre[n].id = last.ret[1]
        /\ Holders(last.pre, label) = {} =>
             /\ Len(clients[last.host]) = Len(last.pre) + 1
             /\ last.ret[1] = last.freshId

C16_Witness ==
  /\ LastOk
  /\ HostInbound(last.host) = 8080
  /\ last.email = <<"a", "@", "b">>
  /\ Upserted.email = <<"a", "_", "8", "0", "8", "0", "@", "b">>
  /\ Holders(last.pre, <<"a", "_", "8", "0", "8", "0", "@", "b">>) # {}
  /\ Holders(clients[last.host], <<"a", "@", "b">>) = {}

----------------------------------------------------------------------------
(* The subscription link *)

LinkDone == link.pc = "done"

\* the link made from an override base b and the token
FromOverride(b, token) ==
  IF Contains(b, Placeholder) THEN Replace(b, Placeholder, token)
  ELSE RStrip(b, {"/"}) \o <<"/">> \o token

(* C17: when the host's record has a non-empty subscription-URL override and a
   token is given, the link is the override with every {token} replaced by the
   token, or, without placeholder, the override without trailing slash, '/'
   and the token. *)
C17_OverrideWins ==
  (LinkDone /\ link.lookup = "ok" /\ link.override # <<>> /\ link.sub_token # <<>>)
    => link.result = FromOverride(link.override, link.sub_token)

(* C17 as amended: when the host's record is read and its override is not
   empty after the surrounding whitespace is removed, and a token is given, the
   link is made from the trimmed override in the same way, whatever the domain
   setting and the host URL are. *)
C17_TrimmedOverrideWins ==
  (LinkDone /\ link.lookup = "ok" /\ Strip(link.override) # <<>> /\ link.sub_token # <<>>)
    => link.result = FromOverride(Strip(link.override), link.sub_token)

C17_Witness ==
  /\ LinkDone /\ link.lookup = "ok"
  /\ link.override = <<" ", "c", "/", "{", "t", "o", "k", "e", "n", "}", " ">>
  /\ link.sub_token = <<"a", "b", "c", "1", "2", "3">>
  /\ Strip(link.domain) # <<>>
  /\ link.result = <<"c", "/", "a", "b", "c", "1", "2", "3">>

----------------------------------------------------------------------------
(* The update path *)

\* the position of the client the call found
OldAt == CHOOSE i \in Holders(last.pre, LastLabel) : \A j \in Holders(last.pre, LastLabel) : i <= j

(* C18: a successful upsert that finds a client keeps the client's id, e-mail
   and place in the list, returns that id, leaves the client enabled, and
   returns the expiry and a token that the stored client has after the push. *)
C18_UpdateKeepsIdentity ==
  (LastOk /\ HasOld) =>
    LET stored == clients[last.host][OldAt]
    IN  /\ Len(clients[last.host]) = Len(last.pre)
        /\ stored.id = Old.id
        /\ stored.email = Old.email
        /\ stored.enable
        /\ last.ret[1] = stored.id
        /\ last.ret[2] = stored.expiry_time
        /\ last.ret[3] \in TokensOf(stored)

C18_Witness ==
  /\ LastOk /\ HasOld
  /\ ~Old.enable
  /\ clients[last.host][OldAt].enable
  /\ clients[last.host][OldAt].id = Old.id
  /\ clients[last.host][OldAt].expiry_time # Old.expiry_time
  /\ last.ret = <<Old.id, clients[last.host][OldAt].expiry_time, 11>>
  /\ TokensOf(clients[last.host][OldAt]) = {11}

----------------------------------------------------------------------------
(* Concurrent upserts *)

RaceOver == race.pc = "over"

\* both calls returned a client id, an expiry and a token
BothOk == \A t \in Threads : race.ret[t] # Absent

\* both calls read the list before either pushed
Overlapped == Len(race.log) >= 2 /\ race.log[1][1] = "read" /\ race.log[2][1] = "read"

FirstPusher == race.log[3][2]
SecondPusher == race.log[4][2]

RaceLabel(t) == PanelEmail(race.args[t][1], HostInbound(race.host))

IdsOf(cl) == {cl[n].id : n \in 1..Len(cl)}

(* C19: when two upserts on one inbound both read the client list before
   either pushed it and both report success, the panel holds the result of the
   later push only. For different e-mails the client of the earlier push is
   missing, or is as it was before the calls; for the same e-mail one client
   has it, with the id and expiry the later push returned: an id minted by the
   earlier push is on no client, an extension made by the earlier push is lost. *)
C19_LostUpdate ==
  (RaceOver /\ BothOk /\ Overlapped) =>
    LET f  == FirstPusher
        s  == SecondPusher
        cl == clients[race.host]
    IN  /\ RaceLabel(f) # RaceLabel(s) =>
             /\ \A n \in Holders(cl, RaceLabel(f)) :
                  \E m \in 1..Len(race.base) : race.base[m] = cl[n]
             /\ Holders(race.base, RaceLabel(f)) = {} => Holders(cl, RaceLabel(f)) = {}
        /\ RaceLabel(f) = RaceLabel(s) =>
             /\ Cardinality(Holders(cl, RaceLabel(s))) = 1
             /\ \A n \in Holders(cl, RaceLabel(s)) :
                  /\ cl[n].id = race.ret[s][1]
                  /\ cl[n].expiry_time = race.ret[s][2]
                  /\ \A m \in Holders(race.base, RaceLabel(s)) :
                       (race.args[s][3] = None /\ race.base[m].expiry_time > clock)
                         => cl[n].expiry_time = race.base[m].expiry_time + race.args[s][2] * DayMs
             /\ Holders(race.base, RaceLabel(f)) = {} => race.ret[f][1] \notin IdsOf(cl)

C19_Witness ==
  /\ RaceOver /\ BothOk /\ Overlapped
  /\ RaceLabel(FirstPusher) # RaceLabel(SecondPusher)
  /\ Holders(race.base, RaceLabel(FirstPusher)) = {}
  /\ Holders(race.base, RaceLabel(SecondPusher)) = {}
  /\ Len(clients[race.host]) = Len(race.base) + 1
  /\ race.ret[FirstPusher][1] \notin IdsOf(clients[race.host])
  /\ race.ret[SecondPusher][1] \in IdsOf(clients[race.host])

----------------------------------------------------------------------------
(* The frame of an upsert *)

\* the clients of a list whose e-mail is not the label, in list order
Others(cl, label) == SelectSeq(cl, LAMBDA c : c.email # label)

\* the positions at which two lists differ, a position of one list only included
Changed(a, b) ==
  {n \in 1..(IF Len(a) > Len(b) THEN Len(a) ELSE Len(b)) :
     n > Len(a) \/ n > Len(b) \/ a[n] # b[n]}

(* C20: a successful upsert changes at most one entry of the inbound's client
   list: the clients with another e-mail than the upserted label are pushed back
   as they were and in the same order; a failed upsert leaves the list as it was. *)
C20_Frame ==
  /\ LastOk =>
       /\ Others(clients[last.host], LastLabel) = Others(last.pre, LastLabel)
       /\ Cardinality(Changed(clients[last.host], last.pre)) <= 1
  /\ (Called /\ ~LastOk) => clients[last.host] = last.pre

C20_Witness ==
  /\ LastOk
  /\ Len(Others(last.pre, LastLabel)) >= 2
  /\ \E n \in 1..Len(last.pre) : last.pre[n].email # LastLabel /\ ~last.pre[n].enable
  /\ Cardinality(Changed(clients[last.host], last.pre)) = 1
  /\ Others(clients[last.host], LastLabel) = Others(last.pre, LastLabel)

----------------------------------------------------------------------------
(* The e-mail of a KeyHost row *)

(* C21: every KeyHost row the sync stores carries the e-mail label of the
   client that holds the row's client id on the row's host, on the inbound 443
   and on any other inbound. *)
C21_RowCarriesLabel ==
  sync.pc # "idle" =>
    \A n \in NewRows :
      \A m \in 1..Len(clients[keyHosts[n].host_name]) :
        clients[keyHosts[n].host_name][m].id = keyHosts[n].xui_client_uuid
          => clients[keyHosts[n].host_name][m].email = keyHosts[n].key_email

----------------------------------------------------------------------------
(* The sync run twice *)

\* in both runs the host was registered, every login and panel call made for a
\* key succeeded, and every key that was provisioned has a stored expiry
BothRunsReached ==
  /\ HostKnown(sync.host)
  /\ \A n \in 1..Len(sync.turns) :
       /\ sync.turns[n].tried =>
            /\ keys[n].expiry_date.kind # "none"
            /\ sync.turns[n].ok \/ RewriteRaises(keys[n].key_email, HostInbound(sync.host))
       /\ sync.prev[n].tried =>
            sync.prev[n].ok \/ RewriteRaises(keys[n].key_email, HostInbound(sync.host))

(* C22: when the sync has run twice in a row for one host, the host reached
   both times and the provisioned keys having a stored expiry, the host's
   client list after the second run is the list the first run left, the second
   run got for every key the client id the first run got, and every key
   provisioned has exactly one client with that id. *)
C22_SyncTwice ==
  (SyncOver /\ sync.run = 2 /\ BothRunsReached) =>
    /\ clients[sync.host] = sync.panel
    /\ \A n \in 1..Len(sync.turns) : sync.turns[n].id = sync.prev[n].id
    /\ \A n \in 1..Len(sync.turns) : sync.turns[n].ok =>
         Cardinality({m \in 1..Len(clients[sync.host]) :
                        clients[sync.host][m].id = sync.turns[n].id}) = 1

C22_Witness ==
  /\ SyncOver /\ sync.run = 2 /\ BothRunsReached
  /\ clients[sync.host] = sync.panel
  /\ clients[sync.host] # initial[sync.host]
  /\ \E n \in 1..Len(sync.turns) :
       /\ sync.turns[n].ok /\ sync.prev[n].ok
       /\ sync.turns[n].id = sync.prev[n].id
       /\ sync.turns[n].t0 > sync.prev[n].t0
       /\ sync.prev[n].id \notin IdsOf(initial[sync.host])
  /\ \E n \in 1..Len(sync.turns) :
       sync.turns[n].ok /\ sync.turns[n].id \in IdsOf(initial[sync.host])

----------------------------------------------------------------------------
(* The delete *)

DeleteOver == del.pc = "done"

\* the clients of the deleted host that carry the e-mail as that host labels it
Remaining == Holders(clients[del.host], PanelEmail(del.email, HostInbound(del.host)))

(* C23: whenever delete_client_on_host(host, email) returns true, the inbound
   of that host holds no client labelled with that e-mail afterwards, with or
   without a local key record, and when every host minted its own client id. *)
C23_GoneWhenTrue ==
  (DeleteOver /\ del.ret) => Remaining = {}

====
